---- MODULE Spec2Model ----
(***************************************************************************)
(* The backup subsystem of Citadel-Alpha-LLM-Server:                       *)
(*   scripts/backup_manager.py  (BackupManager, its worker threads, CLI)   *)
(*   scripts/backup_models.py   (EnhancedBackupManager: transaction,       *)
(*                               retry loop, wait-for-completion)          *)
(* Paths and messages are sequences of string tokens, so that prefix and   *)
(* containment tests are computed and not assumed.                         *)
(***************************************************************************)
EXTENDS Integers, Sequences, FiniteSets, TLC

VARIABLES
    now,             \* wall clock, whole seconds (datetime.now(), time.time())
    alive,           \* the Python process is still running
    jobs,            \* the BackupJob objects, in creation order
    backup_jobs,     \* BackupManager.backup_jobs: job_id -> index into jobs
    wpc,             \* position of the worker thread of each job
    wexc,            \* the exception a worker is handling (a message) or <<>>
    wmeta,           \* the metadata document a worker has loaded in _save_backup_metadata
    wcmd,            \* the rsync command each worker has run: <<>> before it ran, else
                     \* <<its --link-dest option>>, the option being <<>> or <<directory>>
    metadata_file,   \* backup_metadata.json: <<>> when absent, else <<list of job dicts>>
    dirs,            \* source-side directories that exist (model dirs, test subsets)
    backup_dir,      \* settings.paths.backup_models exists
    backup_fs,       \* directory path -> [mtime, content]: the backup directories, each
                     \* with its modification time and the names of the files in it
    fcond,           \* file name -> what reading that backed-up file meets, if not "ok"
    cpc,             \* position of the caller inside create_backup
    cjob,            \* index of the job create_backup is building / has returned
    cb_calls,        \* create_backup invocations so far
    epc,             \* position of the caller inside create_model_backup
    eargs,           \* arguments of the running create_model_backup call
    settings,        \* settings.backup: max_retry_attempts, retry_delay_seconds, compress
    attempt,         \* loop variable of _create_backup_with_retry
    ejobs,           \* jobs created by the running create_model_backup call, in order
    outcomes,        \* what each attempt ended with: completed, failed, timeout, subset
    sleeps,          \* attempts after which time.sleep(retry_delay) ran
    wait_start,      \* start_time of _wait_for_backup_completion
    eexc,            \* exception in flight inside create_model_backup, or <<>>
    rollback_actions,\* the list yielded by backup_transaction
    rb_pos,          \* how many rollback actions the handler has still to run
    rb_log,          \* rollback actions invoked, in invocation order
    rb_failed,       \* errors of the rollback actions that raised, in order
    propagated,      \* exception that left the backup_transaction scope, or <<>>
    result,          \* EnhancedBackupResult returned by create_model_backup, or <<>>
    escaped,         \* an exception left create_model_backup
    vresult,         \* VerificationResult returned by verify_backup, or <<>>
    vargs,           \* arguments of that verify_backup call, or <<>>
    hash_in,         \* directory trees handed to _calculate_directory_checksum
    hash_out,        \* the checksum computed for each of them, or <<>>
    cleaned          \* list returned by cleanup_old_backups, or <<>>

vars == <<now, alive, jobs, backup_jobs, wpc, wexc, wmeta, wcmd, metadata_file,
          dirs, backup_dir, backup_fs, cpc, cjob, cb_calls,
          epc, eargs, settings, attempt, ejobs, outcomes, sleeps, wait_start, eexc,
          rollback_actions, rb_pos, rb_log, rb_failed, propagated, result, escaped, fcond,
          vresult, vargs, hash_in, hash_out, cleaned>>

callVars == <<vresult, vargs, hash_in, hash_out, cleaned>>

managerVars == <<jobs, backup_jobs, wpc, wexc, wmeta, wcmd, metadata_file, backup_dir,
                 backup_fs, cpc, cjob, cb_calls, fcond, callVars>>

enhancedVars == <<epc, eargs, attempt, ejobs, outcomes, sleeps, wait_start,
                  eexc, result, escaped>>

txnVars == <<rollback_actions, rb_pos, rb_log, rb_failed, propagated>>

(***************************************************************************)
(* Bounds of the exploration.                                              *)
(***************************************************************************)
MaxJobs == 2
MaxActions == 2

\* random.randint(1000, 9999), backup_manager.py:103
RandLow == 1000

RandHigh == 9999

None == <<>>

Some(v) == <<v>>

(***************************************************************************)
(* Paths.  A path is <<root, name tokens...>>; Path(p).name is its tail.   *)
(***************************************************************************)
PathName(p) == Tail(p)

ModelsActive == "models_active"

ModelsStaging == "models_staging"

BackupModels == "backup_models"

StartsWith(s, prefix) ==
    /\ Len(prefix) <= Len(s)
    /\ SubSeq(s, 1, Len(prefix)) = prefix

Contains(msg, token) == \E i \in 1..Len(msg) : msg[i] = token

(***************************************************************************)
(* BackupJob and create_backup (backup_manager.py:101-130).                *)
(***************************************************************************)
Terminal(status) == status \in {"completed", "failed"}

JobId(t, rand) == <<"backup", ToString(t), ToString(rand)>>

DestinationPath(source_path, backup_type, t) ==
    <<BackupModels>> \o PathName(source_path) \o <<backup_type, ToString(t)>>

NewJobStatusRunning(source_path, backup_type, t, rand) ==
    [job_id |-> JobId(t, rand),
     source_path |-> source_path,
     destination_path |-> DestinationPath(source_path, backup_type, t),
     backup_type |-> backup_type,
     status |-> "running",
     start_time |-> None,
     end_time |-> None,
     files_processed |-> 0,
     bytes_processed |-> 0,
     errors |-> <<>>,
     checksum |-> None]

NewJob(source_path, backup_type, t, rand) ==
    [job_id |-> JobId(t, rand),
     source_path |-> source_path,
     destination_path |-> DestinationPath(source_path, backup_type, t),
     backup_type |-> backup_type,
     status |-> "pending",
     start_time |-> None,
     end_time |-> None,
     files_processed |-> 0,
     bytes_processed |-> 0,
     errors |-> <<>>,
     checksum |-> None]

\* lines 103-124: build the job and register it in the ledger under its job_id
\* (t is the second the call falls in)
CB_Enter(source_path, backup_type, rand, t) ==
    /\ alive
    /\ cpc = "none"
    /\ now' = t
    /\ LET job == NewJob(source_path, backup_type, t, rand)
           idx == Len(jobs) + 1
       IN  /\ jobs' = Append(jobs, job)
           /\ backup_jobs' = (job.job_id :> idx) @@ backup_jobs
           /\ wpc' = Append(wpc, "unstarted")
           /\ wexc' = Append(wexc, None)
           /\ wmeta' = Append(wmeta, None)
           /\ wcmd' = Append(wcmd, None)
           /\ cjob' = idx
    /\ cb_calls' = cb_calls + 1
    /\ cpc' = "start"
    /\ UNCHANGED <<metadata_file, backup_dir, backup_fs, fcond, callVars>>

\* lines 127-128: threading.Thread(target=self._execute_backup, daemon=True).start()
CB_StartThread ==
    /\ alive
    /\ cpc = "start"
    /\ wpc' = [wpc EXCEPT ![cjob] = "run"]
    /\ cpc' = "return"
    /\ UNCHANGED <<now, alive, dirs, settings>>
    /\ UNCHANGED <<jobs, backup_jobs, wexc, wmeta, wcmd, metadata_file, backup_dir,
                   backup_fs, cjob, cb_calls, fcond, callVars>>
    /\ UNCHANGED enhancedVars
    /\ UNCHANGED txnVars

\* line 130: return job.  The caller of create_model_backup's retry loop goes on
\* to wait for the job (backup_models.py:220-223).
CB_Return ==
    /\ alive
    /\ cpc = "return"
    /\ cpc' = "none"
    /\ epc' = IF epc = "in_create" THEN "wait_enter" ELSE epc
    /\ ejobs' = IF epc = "in_create" THEN Append(ejobs, cjob) ELSE ejobs
    /\ UNCHANGED <<now, alive, dirs, settings>>
    /\ UNCHANGED <<jobs, backup_jobs, wpc, wexc, wmeta, wcmd, metadata_file, backup_dir,
                   backup_fs, cjob, cb_calls, fcond, callVars>>
    /\ UNCHANGED <<eargs, attempt, outcomes, sleeps, wait_start, eexc, result, escaped>>
    /\ UNCHANGED txnVars

(***************************************************************************)
(* The worker thread: BackupManager._execute_backup                        *)
(* (backup_manager.py:132-169), one action per statement.                  *)
(***************************************************************************)
Workers == 1..Len(jobs)

WorkerFrame == 
    /\ UNCHANGED <<alive, dirs, settings>>
    /\ UNCHANGED <<backup_jobs, cpc, cjob, cb_calls, fcond, callVars>>
    /\ UNCHANGED enhancedVars
    /\ UNCHANGED txnVars

\* the except handler of line 165 is entered with str(e) = msg
Raise(j, msg) ==
    /\ wexc' = [wexc EXCEPT ![j] = Some(msg)]
    /\ wpc' = [wpc EXCEPT ![j] = "x_status"]

\* line 136: job.status = "running"
W_Running(j) ==
    /\ alive /\ wpc[j] = "run"
    /\ jobs' = [jobs EXCEPT ![j].status = "running"]
    /\ wpc' = [wpc EXCEPT ![j] = "start_time"]
    /\ UNCHANGED <<now, wexc, wmeta, wcmd, metadata_file, backup_dir, backup_fs>>
    /\ WorkerFrame

\* line 137: job.start_time = datetime.now()
W_StartTime(j) ==
    /\ alive /\ wpc[j] = "start_time"
    /\ jobs' = [jobs EXCEPT ![j].start_time = Some(now)]
    /\ wpc' = [wpc EXCEPT ![j] = "validate"]
    /\ UNCHANGED <<now, wexc, wmeta, wcmd, metadata_file, backup_dir, backup_fs>>
    /\ WorkerFrame

SourceMissingMsg(source_path) == <<"Source path does not exist:">> \o source_path

W_ValidateAfterMkdir(j) ==
    /\ alive /\ wpc[j] = "validate"
    /\ backup_dir' = TRUE
    /\ IF jobs[j].source_path \in dirs
       THEN /\ wpc' = [wpc EXCEPT ![j] = "mkdir"]
            /\ UNCHANGED wexc
       ELSE Raise(j, SourceMissingMsg(jobs[j].source_path))
    /\ UNCHANGED <<now, jobs, wmeta, wcmd, metadata_file, backup_fs>>
    /\ WorkerFrame

\* lines 142-143: if not source.exists(): raise FileNotFoundError
W_Validate(j) ==
    /\ alive /\ wpc[j] = "validate"
    /\ IF jobs[j].source_path \in dirs
       THEN /\ wpc' = [wpc EXCEPT ![j] = "mkdir"]
            /\ UNCHANGED wexc
       ELSE Raise(j, SourceMissingMsg(jobs[j].source_path))
    /\ UNCHANGED <<now, jobs, wmeta, wcmd, metadata_file, backup_dir, backup_fs>>
    /\ WorkerFrame

\* line 146: destination.parent.mkdir(parents=True, exist_ok=True)
W_Mkdir(j) ==
    /\ alive /\ wpc[j] = "mkdir"
    /\ backup_dir' = TRUE
    /\ wpc' = [wpc EXCEPT ![j] = "copy"]
    /\ UNCHANGED <<now, jobs, wexc, wmeta, wcmd, metadata_file, backup_fs>>
    /\ WorkerFrame

\* _find_last_backup (lines 235-253): the directories under backup_models whose
\* name starts with the source's base name, newest modification time first
\* (list.sort is stable over iterdir order, so equal mtimes tie arbitrarily)
MatchingBackups(source_path) ==
    IF backup_dir
    THEN {d \in DOMAIN backup_fs : StartsWith(PathName(d), PathName(source_path))}
    ELSE {}

OldestBackups(source_path) ==
    {d \in MatchingBackups(source_path) :
        \A e \in MatchingBackups(source_path) : backup_fs[d].mtime <= backup_fs[e].mtime}

LastBackups(source_path) ==
    {d \in MatchingBackups(source_path) :
        \A e \in MatchingBackups(source_path) : backup_fs[e].mtime <= backup_fs[d].mtime}

\* lines 149-152 and 193-197: the --link-dest a job runs rsync with: none for a
\* full job and when _find_last_backup returns None, else one of the newest
\* matching directories
FindLastBackup(job) ==
    IF job.backup_type = "full" \/ LastBackups(job.source_path) = {}
    THEN {None}
    ELSE {Some(d) : d \in LastBackups(job.source_path)}

\* the files of a source tree: a model directory, or the scratch subset that
\* _create_test_subset fills from essential_files (backup_models.py:255)
EssentialFiles == {"config.json", "tokenizer.json", "tokenizer_config.json"}

ModelFiles == EssentialFiles \cup {"model.bin"}

SourceFiles(source_path) ==
    IF source_path[1] = ModelsStaging THEN EssentialFiles ELSE ModelFiles

SyncedWithoutFiles(dest, source_path, complete) ==
    LET before == IF dest \in DOMAIN backup_fs THEN backup_fs[dest].content ELSE {}
    IN  (dest :> [mtime |-> now, content |-> before]) @@ backup_fs

\* what rsync leaves at the destination: the directory, touched now, holding the
\* source's files in addition to whatever the directory held before
Synced(dest, source_path, complete) ==
    LET before == IF dest \in DOMAIN backup_fs THEN backup_fs[dest].content ELSE {}
    IN  (dest :> [mtime |-> now,
                  content |-> IF complete THEN before \cup SourceFiles(source_path)
                              ELSE before])
        @@ backup_fs

RsyncFailedMsg(backup_type, linked) ==
    IF backup_type = "full" \/ ~linked
    THEN <<"Rsync failed:", "stderr">>
    ELSE <<"Incremental backup failed:", "stderr">>

W_CopyIgnoresFailure(j) ==
    /\ alive /\ wpc[j] = "copy"
    /\ LET job == jobs[j]
       IN  \E last_backup \in FindLastBackup(job), ok \in BOOLEAN, partial \in BOOLEAN :
              /\ wcmd' = [wcmd EXCEPT ![j] = Some(last_backup)]
              /\ backup_fs' = IF ok \/ partial
                              THEN Synced(job.destination_path, job.source_path, ok)
                              ELSE backup_fs
              /\ wpc' = [wpc EXCEPT ![j] = "checksum"]
              /\ UNCHANGED wexc
    /\ UNCHANGED <<now, jobs, wmeta, metadata_file, backup_dir>>
    /\ WorkerFrame

\* lines 149-152 with _perform_full_backup (171-189) and
\* _perform_incremental_backup (191-218).  rsync exits zero or non-zero; a
\* failing rsync may leave a partial destination.  _parse_rsync_stats reads
\* result.stderr, where rsync --stats writes nothing, so the counters stay 0.
W_Copy(j) ==
    /\ alive /\ wpc[j] = "copy"
    /\ LET job == jobs[j]
       IN  \E last_backup \in FindLastBackup(job), ok \in BOOLEAN, partial \in BOOLEAN :
              /\ wcmd' = [wcmd EXCEPT ![j] = Some(last_backup)]
              /\ IF ok
                 THEN /\ partial
                      /\ backup_fs' = Synced(job.destination_path, job.source_path, TRUE)
                      /\ wpc' = [wpc EXCEPT ![j] = "checksum"]
                      /\ UNCHANGED wexc
                 ELSE /\ backup_fs' = IF partial
                                      THEN Synced(job.destination_path, job.source_path, FALSE)
                                      ELSE backup_fs
                      /\ Raise(j, RsyncFailedMsg(job.backup_type, last_backup # None))
    /\ UNCHANGED <<now, jobs, wmeta, metadata_file, backup_dir>>
    /\ WorkerFrame

Cond(f) == IF f \in DOMAIN fcond THEN fcond[f] ELSE "ok"

\* _calculate_directory_checksum (lines 255-279): a digest of the files that can
\* be read, here those files themselves; a file that cannot be read is skipped
\* (line 276) and os.walk of a missing directory visits nothing
DirectoryChecksum(path) ==
    IF path \in DOMAIN backup_fs
    THEN <<"md5", {f \in backup_fs[path].content : Cond(f) = "ok"}>>
    ELSE <<"md5", {}>>

W_ChecksumSkipped(j) ==
    /\ alive /\ wpc[j] = "checksum"
    /\ wpc' = [wpc EXCEPT ![j] = "completed"]
    /\ UNCHANGED <<now, jobs, wexc, wmeta, wcmd, metadata_file, backup_dir, backup_fs>>
    /\ WorkerFrame

\* line 155: job.checksum = self._calculate_directory_checksum(str(destination))
W_Checksum(j) ==
    /\ alive /\ wpc[j] = "checksum"
    /\ jobs' = [jobs EXCEPT ![j].checksum = Some(DirectoryChecksum(jobs[j].destination_path))]
    /\ wpc' = [wpc EXCEPT ![j] = "completed"]
    /\ UNCHANGED <<now, wexc, wmeta, wcmd, metadata_file, backup_dir, backup_fs>>
    /\ WorkerFrame

\* line 157: job.status = "completed"
W_Completed(j) ==
    /\ alive /\ wpc[j] = "completed"
    /\ jobs' = [jobs EXCEPT ![j].status = "completed"]
    /\ wpc' = [wpc EXCEPT ![j] = "end_time"]
    /\ UNCHANGED <<now, wexc, wmeta, wcmd, metadata_file, backup_dir, backup_fs>>
    /\ WorkerFrame

\* line 158: job.end_time = datetime.now()
W_EndTime(j) ==
    /\ alive /\ wpc[j] = "end_time"
    /\ jobs' = [jobs EXCEPT ![j].end_time = Some(now)]
    /\ wpc' = [wpc EXCEPT ![j] = "save_load"]
    /\ UNCHANGED <<now, wexc, wmeta, wcmd, metadata_file, backup_dir, backup_fs>>
    /\ WorkerFrame

\* _load_backup_metadata (lines 432-442): the stored document, or a fresh one
LoadBackupMetadata == IF metadata_file = None THEN <<>> ELSE metadata_file[1]

\* asdict(job) with the datetimes turned into ISO strings (lines 416-421)
IsoFormat(t) == IF t = None THEN None ELSE Some(<<"iso", ToString(t[1])>>)

JobDict(job) ==
    [job EXCEPT !.start_time = IsoFormat(job.start_time),
                !.end_time = IsoFormat(job.end_time)]

\* line 413: metadata = self._load_backup_metadata()
W_SaveLoad(j) ==
    /\ alive /\ wpc[j] = "save_load"
    /\ wmeta' = [wmeta EXCEPT ![j] = Some(LoadBackupMetadata)]
    /\ wpc' = [wpc EXCEPT ![j] = "save_write"]
    /\ UNCHANGED <<now, jobs, wexc, wcmd, metadata_file, backup_dir, backup_fs>>
    /\ WorkerFrame

W_SaveWriteUncaught(j) ==
    /\ alive /\ wpc[j] = "save_write"
    /\ \E written \in BOOLEAN :
          IF written
          THEN /\ metadata_file' = Some(Append(wmeta[j][1], JobDict(jobs[j])))
               /\ wpc' = [wpc EXCEPT ![j] = "done"]
               /\ wexc' = wexc
          ELSE /\ metadata_file' = metadata_file
               /\ Raise(j, <<"json.dump failed">>)
    /\ wmeta' = [wmeta EXCEPT ![j] = None]
    /\ UNCHANGED <<now, jobs, wcmd, backup_dir, backup_fs>>
    /\ WorkerFrame

\* lines 416-427: append the job's dict and rewrite the whole file
W_SaveWrite(j) ==
    /\ alive /\ wpc[j] = "save_write"
    /\ metadata_file' = Some(Append(wmeta[j][1], JobDict(jobs[j])))
    /\ wmeta' = [wmeta EXCEPT ![j] = None]
    /\ wpc' = [wpc EXCEPT ![j] = "done"]
    /\ UNCHANGED <<now, jobs, wexc, wcmd, backup_dir, backup_fs>>
    /\ WorkerFrame

\* line 166: job.status = "failed"
W_Failed(j) ==
    /\ alive /\ wpc[j] = "x_status"
    /\ jobs' = [jobs EXCEPT ![j].status = "failed"]
    /\ wpc' = [wpc EXCEPT ![j] = "x_end"]
    /\ UNCHANGED <<now, wexc, wmeta, wcmd, metadata_file, backup_dir, backup_fs>>
    /\ WorkerFrame

\* line 167: job.end_time = datetime.now()
W_FailedEndTime(j) ==
    /\ alive /\ wpc[j] = "x_end"
    /\ jobs' = [jobs EXCEPT ![j].end_time = Some(now)]
    /\ wpc' = [wpc EXCEPT ![j] = "x_err"]
    /\ UNCHANGED <<now, wexc, wmeta, wcmd, metadata_file, backup_dir, backup_fs>>
    /\ WorkerFrame

\* line 168: job.errors.append(str(e))
W_FailedError(j) ==
    /\ alive /\ wpc[j] = "x_err"
    /\ jobs' = [jobs EXCEPT ![j].errors = Append(@, wexc[j][1])]
    /\ wexc' = [wexc EXCEPT ![j] = None]
    /\ wpc' = [wpc EXCEPT ![j] = "done"]
    /\ UNCHANGED <<now, wmeta, wcmd, metadata_file, backup_dir, backup_fs>>
    /\ WorkerFrame

WorkerStep(j) ==
    \/ W_Running(j)
    \/ W_StartTime(j)
    \/ W_Validate(j)
    \/ W_Mkdir(j)
    \/ W_Copy(j)
    \/ W_Checksum(j)
    \/ W_Completed(j)
    \/ W_EndTime(j)
    \/ W_SaveLoad(j)
    \/ W_SaveWrite(j)
    \/ W_Failed(j)
    \/ W_FailedEndTime(j)
    \/ W_FailedError(j)

Worker == \E j \in Workers : WorkerStep(j)

(***************************************************************************)
(* The caller of BackupManager and the end of the process.                 *)
(***************************************************************************)
PhiDir == <<ModelsActive, "Phi-3-mini-128k-instruct">>

BackupTypes == {"full", "incremental"}

\* a direct call of create_backup, as made by backup_manager.py's main (line 505)
\* or by any other user of the class, each call in a second of its own
CreateBackup ==
    \E backup_type \in BackupTypes, rand \in {RandLow}, t \in {now + 1} :
        /\ epc = "idle"
        /\ cb_calls < MaxJobs
        /\ CB_Enter(PhiDir, backup_type, rand, t)
        /\ UNCHANGED <<alive, dirs, settings>>
        /\ UNCHANGED enhancedVars
        /\ UNCHANGED txnVars

\* backup_manager.py main, command "create" (lines 497-509): one create_backup
CliCreate ==
    \E backup_type \in BackupTypes, rand \in {RandLow, RandHigh} :
        /\ epc = "idle"
        /\ cb_calls = 0
        /\ CB_Enter(PhiDir, backup_type, rand, now)
        /\ UNCHANGED <<alive, dirs, settings>>
        /\ UNCHANGED enhancedVars
        /\ UNCHANGED txnVars

\* main returns (backup_manager.py:506-509, backup_models.py:371-376) and the
\* interpreter exits: the workers are daemon threads (line 127), so they stop
\* wherever they are
Exit ==
    /\ alive
    /\ cb_calls > 0 \/ result # None
    /\ cpc = "none"
    /\ epc = "idle"
    /\ alive' = FALSE
    /\ UNCHANGED <<now, dirs, settings>>
    /\ UNCHANGED managerVars
    /\ UNCHANGED enhancedVars
    /\ UNCHANGED txnVars

(***************************************************************************)
(* EnhancedBackupManager.backup_transaction (backup_models.py:87-109).     *)
(* A rollback action is [id, raises, dir]: dir is the directory a          *)
(* _cleanup_directory callback removes (<<>> for any other callback).      *)
(***************************************************************************)
Exc(type, msg) == [type |-> type, msg |-> msg]

RollbackError(a) == Exc("Exception", <<"rollback error", a.id>>)

\* line 103, for action in reversed(rollback_actions): the action run when
\* `remaining` of them are still to run
ForwardRollback(actions, remaining) == actions[Len(actions) - remaining + 1]

NextRollback(actions, remaining) == actions[remaining]

\* line 109, a bare raise: the exception that leaves the scope, given the one the
\* body raised and the errors of the rollback actions
ReraisedLastError(original, rollback_errors) ==
    IF rollback_errors = <<>> THEN original ELSE rollback_errors[Len(rollback_errors)]

Reraised(original, rollback_errors) == original

ScopeExitRunsRollback ==
    /\ rb_log' = [i \in 1..Len(rollback_actions) |->
                     rollback_actions[Len(rollback_actions) - i + 1].id]
    /\ UNCHANGED <<rollback_actions, rb_pos, rb_failed, propagated>>

\* lines 95-97: the body ends without an exception; the generator resumes after
\* the yield, logs, and ends: no callback is invoked
ScopeExit == UNCHANGED txnVars

\* lines 98-100: the handler of the scope is entered
TxnExcept ==
    /\ alive
    /\ epc = "txn_except"
    /\ rb_pos' = Len(rollback_actions)
    /\ epc' = "rollback"
    /\ UNCHANGED <<now, alive, dirs, settings>>
    /\ UNCHANGED managerVars
    /\ UNCHANGED <<eargs, attempt, ejobs, outcomes, sleeps, wait_start, eexc,
                   result, escaped>>
    /\ UNCHANGED <<rollback_actions, rb_log, rb_failed, propagated>>

\* lines 103-108: one iteration of the rollback loop.  _cleanup_directory
\* (lines 267-274) removes the directory, or fails to, and raises nothing.
TxnRollbackStep ==
    /\ alive
    /\ epc = "rollback"
    /\ rb_pos > 0
    /\ LET a == NextRollback(rollback_actions, rb_pos)
       IN  /\ rb_log' = Append(rb_log, a.id)
           /\ rb_failed' = IF a.raises THEN Append(rb_failed, RollbackError(a)) ELSE rb_failed
           /\ \E removed \in BOOLEAN :
                 dirs' = IF a.dir # <<>> /\ ~a.raises /\ removed THEN dirs \ {a.dir}
                         ELSE dirs
    /\ rb_pos' = rb_pos - 1
    /\ UNCHANGED <<now, alive, settings>>
    /\ UNCHANGED managerVars
    /\ UNCHANGED enhancedVars
    /\ UNCHANGED <<rollback_actions, propagated>>

\* line 109: raise.  Inside create_model_backup the exception reaches the except
\* clause of line 159; a scope used on its own hands it to its caller.
TxnReraise ==
    /\ alive
    /\ epc = "rollback"
    /\ rb_pos = 0
    /\ propagated' = Some(Reraised(eexc[1], rb_failed))
    /\ epc' = IF eargs = None THEN "scope_raised" ELSE "outer_except"
    /\ UNCHANGED <<now, alive, dirs, settings>>
    /\ UNCHANGED managerVars
    /\ UNCHANGED <<eargs, attempt, ejobs, outcomes, sleeps, wait_start, eexc,
                   result, escaped>>
    /\ UNCHANGED <<rollback_actions, rb_pos, rb_log, rb_failed>>

(***************************************************************************)
(* EnhancedBackupManager.create_model_backup (backup_models.py:111-174),   *)
(* _get_model_path (176-194), _create_backup_with_retry (196-240),         *)
(* _create_test_subset (242-265), _wait_for_backup_completion (276-290).   *)
(***************************************************************************)
WaitTimeout == 1800

PollInterval == 10

RetryDelayMin == 5

\* model_mapping, backup_models.py:179-187
ModelMapping ==
    [phi3 |-> "phi-3-mini-128k",
     mixtral |-> "mixtral-8x7b-instruct",
     yi34b |-> "yi-34b-chat",
     hermes |-> "nous-hermes-2-mixtral",
     openchat |-> "openchat-3.5",
     coder |-> "deepcoder-14b-instruct",
     vision |-> "mimo-vl-7b-rl"]

\* settings.models.model_directories, configs/storage_settings.py:106-117
ModelDirectories ==
    ("mixtral-8x7b-instruct" :> "Mixtral-8x7B-Instruct-v0.1") @@
    ("yi-34b-chat" :> "Yi-34B-Chat") @@
    ("nous-hermes-2-mixtral" :> "Nous-Hermes-2-Mixtral-8x7B-DPO") @@
    ("openchat-3.5" :> "openchat-3.5-1210") @@
    ("phi-3-mini-128k" :> "Phi-3-mini-128k-instruct") @@
    ("deepcoder-14b-instruct" :> "deepseek-coder-14b-instruct-v1.5") @@
    ("mimo-vl-7b-rl" :> "imp-v1_5-7b")

GetModelPathOfAnyName(model_name) ==
    LET config_key == IF model_name \in DOMAIN ModelMapping
                      THEN ModelMapping[model_name] ELSE model_name
    IN  IF config_key \in DOMAIN ModelDirectories
        THEN Some(<<ModelsActive, ModelDirectories[config_key]>>)
        ELSE Some(<<ModelsActive, config_key>>)

GetModelPath(model_name) ==
    LET config_key == IF model_name \in DOMAIN ModelMapping
                      THEN ModelMapping[model_name] ELSE model_name
    IN  IF config_key \in DOMAIN ModelDirectories
        THEN Some(<<ModelsActive, ModelDirectories[config_key]>>)
        ELSE None

ModelNotFoundMsg(model_name) == <<"Model path", "not found", "for:", model_name>>

ModelDirMissingMsg(model_path) == <<"Model directory", "does not exist", ":">> \o model_path

TimeoutMsg == <<"Backup job timed out after", ToString(WaitTimeout), "seconds">>

RECURSIVE StrOfList(_)
StrOfList(list) == IF list = <<>> THEN <<>> ELSE list[1] \o StrOfList(Tail(list))

JobFailedMsg(errors) == <<"Backup job failed:", "[">> \o StrOfList(errors) \o <<"]">>

AllFailedMsg(max_attempts, msg) ==
    <<"All", ToString(max_attempts), "backup attempts failed:">> \o msg

\* lines 163-174
FailureResult(model_name, backup_type, e) ==
    [success |-> FALSE,
     message |-> <<"Backup failed for", model_name, ":">> \o e.msg,
     backup_type |-> backup_type,
     model_name |-> model_name,
     backup_path |-> None,
     files_processed |-> 0,
     bytes_processed |-> 0,
     errors |-> <<e.msg>>]

\* lines 146-157
SuccessResult(model_name, backup_type, job) ==
    [success |-> TRUE,
     message |-> <<"Backup completed for", model_name>>,
     backup_type |-> backup_type,
     model_name |-> model_name,
     backup_path |-> Some(job.destination_path),
     files_processed |-> job.files_processed,
     bytes_processed |-> job.bytes_processed,
     errors |-> job.errors]

EnhancedFrame ==
    /\ UNCHANGED <<alive, settings>>
    /\ UNCHANGED managerVars

\* an exception raised inside the with block of line 122 enters the handler of
\* backup_transaction
RaiseInScope(e) ==
    /\ eexc' = Some(e)
    /\ epc' = "txn_except"

\* lines 119-122: the call enters its transaction scope (line 90: a fresh list)
E_Call(model_name, backup_type, test_mode) ==
    /\ alive
    /\ epc = "idle"
    /\ result = None
    /\ eargs' = Some([model_name |-> model_name, backup_type |-> backup_type,
                      test_mode |-> test_mode])
    /\ epc' = "resolve"
    /\ rollback_actions' = <<>>
    /\ UNCHANGED <<now, dirs, attempt, ejobs, outcomes, sleeps, wait_start, eexc,
                   result, escaped, rb_pos, rb_log, rb_failed, propagated>>
    /\ EnhancedFrame

\* lines 125-130, and the loop is entered (line 209)
E_Resolve ==
    /\ alive
    /\ epc = "resolve"
    /\ LET model_path == GetModelPath(eargs[1].model_name)
       IN  IF model_path = None
           THEN /\ RaiseInScope(Exc("ValueError", ModelNotFoundMsg(eargs[1].model_name)))
                /\ UNCHANGED attempt
           ELSE IF model_path[1] \notin dirs
           THEN /\ RaiseInScope(Exc("FileNotFoundError", ModelDirMissingMsg(model_path[1])))
                /\ UNCHANGED attempt
           ELSE /\ epc' = "attempt"
                /\ attempt' = 1
                /\ UNCHANGED eexc
    /\ UNCHANGED <<now, dirs, eargs, ejobs, outcomes, sleeps, wait_start, result,
                   escaped>>
    /\ UNCHANGED txnVars
    /\ EnhancedFrame

\* the except clause of the retry loop (lines 231-238) is entered with e
RaiseInAttempt(e, outcome) ==
    /\ eexc' = Some(e)
    /\ outcomes' = Append(outcomes, outcome)
    /\ epc' = "retry_except"

TestDir(t) == <<ModelsStaging, "test_backup", ToString(t)>>

CleanupAction(dir) == [id |-> "cleanup", raises |-> FALSE, dir |-> dir]

E_TestSubsetRegistersLast ==
    /\ alive
    /\ epc = "attempt"
    /\ attempt <= settings.max_retry_attempts
    /\ eargs[1].test_mode
    /\ dirs' = dirs \cup {TestDir(now)}
    /\ \E copied \in BOOLEAN :
          IF copied
          THEN /\ epc' = "create"
               /\ rollback_actions' = Append(rollback_actions, CleanupAction(TestDir(now)))
               /\ UNCHANGED <<eexc, outcomes>>
          ELSE /\ RaiseInAttempt(Exc("CalledProcessError", <<"cp", "returned non-zero">>),
                                 "subset")
               /\ UNCHANGED rollback_actions
    /\ UNCHANGED <<now, eargs, attempt, ejobs, sleeps, wait_start, result, escaped>>
    /\ UNCHANGED <<rb_pos, rb_log, rb_failed, propagated>>
    /\ EnhancedFrame

\* lines 214-216 with _create_test_subset: make the scratch directory, register
\* its cleanup, copy the essential files (cp may fail: check=True raises)
E_TestSubset ==
    /\ alive
    /\ epc = "attempt"
    /\ attempt <= settings.max_retry_attempts
    /\ eargs[1].test_mode
    /\ dirs' = dirs \cup {TestDir(now)}
    /\ rollback_actions' = Append(rollback_actions, CleanupAction(TestDir(now)))
    /\ \E copied \in BOOLEAN :
          IF copied
          THEN /\ epc' = "create"
               /\ UNCHANGED <<eexc, outcomes>>
          ELSE RaiseInAttempt(Exc("CalledProcessError", <<"cp", "returned non-zero">>),
                              "subset")
    /\ UNCHANGED <<now, eargs, attempt, ejobs, sleeps, wait_start, result, escaped>>
    /\ UNCHANGED <<rb_pos, rb_log, rb_failed, propagated>>
    /\ EnhancedFrame

\* lines 217-218; line 240 when range(1, max_attempts + 1) is empty
E_FullSource ==
    /\ alive
    /\ epc = "attempt"
    /\ ~eargs[1].test_mode
    /\ IF attempt <= settings.max_retry_attempts
       THEN /\ epc' = "create"
            /\ UNCHANGED eexc
       ELSE RaiseInScope(Exc("Exception", <<"Backup retry logic exhausted">>))
    /\ UNCHANGED <<now, dirs, eargs, attempt, ejobs, outcomes, sleeps, wait_start,
                   result, escaped>>
    /\ UNCHANGED txnVars
    /\ EnhancedFrame

\* line 220: backup_job = self.create_backup(source_path, backup_type)
E_CreateBackup ==
    \E rand \in {RandLow} :
        /\ epc = "create"
        /\ CB_Enter(IF eargs[1].test_mode THEN TestDir(now)
                    ELSE GetModelPath(eargs[1].model_name)[1],
                    eargs[1].backup_type, rand, now)
        /\ epc' = "in_create"
        /\ UNCHANGED <<alive, dirs, settings>>
        /\ UNCHANGED <<eargs, attempt, ejobs, outcomes, sleeps, wait_start, eexc,
                       result, escaped>>
        /\ UNCHANGED txnVars

CurrentJob == jobs[ejobs[Len(ejobs)]]

\* line 278: start_time = time.time()
E_WaitEnter ==
    /\ alive
    /\ epc = "wait_enter"
    /\ wait_start' = now
    /\ epc' = "wait"
    /\ UNCHANGED <<now, dirs, eargs, attempt, ejobs, outcomes, sleeps, eexc, result, escaped>>
    /\ UNCHANGED txnVars
    /\ EnhancedFrame

\* line 281: time.time() - start_time > timeout
TimedOut(start, t) == t - start > WaitTimeout

\* the sleeps of line 284 it takes to pass the deadline
PollsToDeadline == WaitTimeout \div PollInterval + 1

\* lines 280-284: the job is not terminal and the deadline has not passed; the
\* loop sleeps on, poll after poll, while the status stays as it is
E_WaitSleep ==
    /\ alive
    /\ epc = "wait"
    /\ ~Terminal(CurrentJob.status)
    /\ ~TimedOut(wait_start, now)
    /\ now' = now + PollsToDeadline * PollInterval
    /\ UNCHANGED <<dirs, epc, eargs, attempt, ejobs, outcomes, sleeps, wait_start, eexc,
                   result, escaped>>
    /\ UNCHANGED txnVars
    /\ EnhancedFrame

\* lines 281-282: raise TimeoutError
E_WaitTimeout ==
    /\ alive
    /\ epc = "wait"
    /\ ~Terminal(CurrentJob.status)
    /\ TimedOut(wait_start, now)
    /\ RaiseInAttempt(Exc("TimeoutError", TimeoutMsg), "timeout")
    /\ UNCHANGED <<now, dirs, eargs, attempt, ejobs, sleeps, wait_start, result,
                   escaped>>
    /\ UNCHANGED txnVars
    /\ EnhancedFrame

E_WaitDoneReturnsOnFailed ==
    /\ alive
    /\ epc = "wait"
    /\ Terminal(CurrentJob.status)
    /\ epc' = "check"
    /\ UNCHANGED <<eexc, outcomes>>
    /\ UNCHANGED <<now, dirs, eargs, attempt, ejobs, sleeps, wait_start, result,
                   escaped>>
    /\ UNCHANGED txnVars
    /\ EnhancedFrame

\* lines 280 and 289-290: the loop ends on a terminal status; failed raises
E_WaitDone ==
    /\ alive
    /\ epc = "wait"
    /\ Terminal(CurrentJob.status)
    /\ IF CurrentJob.status = "failed"
       THEN RaiseInAttempt(Exc("Exception", JobFailedMsg(CurrentJob.errors)), "failed")
       ELSE /\ epc' = "check"
            /\ UNCHANGED <<eexc, outcomes>>
    /\ UNCHANGED <<now, dirs, eargs, attempt, ejobs, sleeps, wait_start, result,
                   escaped>>
    /\ UNCHANGED txnVars
    /\ EnhancedFrame

\* lines 225-229
E_Check ==
    /\ alive
    /\ epc = "check"
    /\ IF CurrentJob.status = "completed"
       THEN /\ epc' = "success"
            /\ outcomes' = Append(outcomes, "completed")
            /\ UNCHANGED eexc
       ELSE RaiseInAttempt(Exc("Exception", <<"Backup job failed with status:",
                                               CurrentJob.status>>), "failed")
    /\ UNCHANGED <<now, dirs, eargs, attempt, ejobs, sleeps, wait_start, result,
                   escaped>>
    /\ UNCHANGED txnVars
    /\ EnhancedFrame

RetryAlways(n, max_attempts) == TRUE

\* line 234: if attempt < max_attempts
RetryAgain(n, max_attempts) == n < max_attempts

\* lines 231-238: sleep and go round again, or give up
E_RetryExcept ==
    /\ alive
    /\ epc = "retry_except"
    /\ IF RetryAgain(attempt, settings.max_retry_attempts)
       THEN /\ now' = now + settings.retry_delay_seconds
            /\ sleeps' = sleeps \cup {attempt}
            /\ attempt' = attempt + 1
            /\ epc' = "attempt"
            /\ eexc' = None
       ELSE /\ RaiseInScope(Exc("Exception",
                                AllFailedMsg(settings.max_retry_attempts, eexc[1].msg)))
            /\ UNCHANGED <<now, sleeps, attempt>>
    /\ UNCHANGED <<dirs, eargs, ejobs, outcomes, wait_start, result, escaped>>
    /\ UNCHANGED txnVars
    /\ EnhancedFrame

E_SuccessKeepsLooping ==
    /\ alive
    /\ epc = "success"
    /\ IF attempt < settings.max_retry_attempts
       THEN /\ epc' = "attempt"
            /\ attempt' = attempt + 1
            /\ UNCHANGED result
       ELSE /\ result' = Some(SuccessResult(eargs[1].model_name, eargs[1].backup_type,
                                            CurrentJob))
            /\ epc' = "idle"
            /\ UNCHANGED attempt
    /\ UNCHANGED <<now, dirs, eargs, ejobs, outcomes, sleeps, wait_start, eexc, escaped>>
    /\ UNCHANGED txnVars
    /\ EnhancedFrame

\* lines 137-157 and the normal exit of the scope (lines 96-97): no rollback.
\* _calculate_compression_ratio (292-313) swallows its own errors.
E_Success ==
    /\ alive
    /\ epc = "success"
    /\ result' = Some(SuccessResult(eargs[1].model_name, eargs[1].backup_type, CurrentJob))
    /\ epc' = "idle"
    /\ UNCHANGED <<now, dirs, eargs, attempt, ejobs, outcomes, sleeps, wait_start,
                   eexc, escaped>>
    /\ ScopeExit
    /\ EnhancedFrame

CaughtUnlessLookup(e) == e.type \notin {"ValueError", "FileNotFoundError"}

\* line 159, except Exception: every exception raised in the scope is one
Caught(e) == TRUE

\* lines 159-174
E_Fail ==
    /\ alive
    /\ epc = "outer_except"
    /\ IF Caught(propagated[1])
       THEN /\ result' = Some(FailureResult(eargs[1].model_name, eargs[1].backup_type,
                                            propagated[1]))
            /\ UNCHANGED escaped
       ELSE /\ escaped' = TRUE
            /\ UNCHANGED result
    /\ epc' = "idle"
    /\ UNCHANGED <<now, dirs, eargs, attempt, ejobs, outcomes, sleeps, wait_start,
                   eexc>>
    /\ UNCHANGED txnVars
    /\ EnhancedFrame

ModelNames == {"phi3", "nonexistent_model"}

CreateModelBackup ==
    \E model_name \in ModelNames, test_mode \in BOOLEAN :
        E_Call(model_name, "daily", test_mode)

Enhanced ==
    \/ E_Resolve
    \/ E_TestSubset
    \/ E_FullSource
    \/ E_CreateBackup
    \/ E_WaitEnter
    \/ E_WaitSleep
    \/ E_WaitTimeout
    \/ E_WaitDone
    \/ E_Check
    \/ E_RetryExcept
    \/ E_Success
    \/ E_Fail

(***************************************************************************)
(* Initial states and specifications.                                      *)
(***************************************************************************)
InitManager ==
    /\ now = 0
    /\ alive = TRUE
    /\ jobs = <<>>
    /\ backup_jobs = <<>>
    /\ wpc = <<>>
    /\ wexc = <<>>
    /\ wmeta = <<>>
    /\ wcmd = <<>>
    /\ metadata_file = None
    /\ backup_dir = FALSE
    /\ backup_fs = <<>>
    /\ cpc = "none"
    /\ cjob = 0
    /\ cb_calls = 0
    /\ fcond = <<>>
    /\ vresult = None
    /\ vargs = None
    /\ hash_in = <<>>
    /\ hash_out = <<>>
    /\ cleaned = None

InitEnhanced ==
    /\ epc = "idle"
    /\ eargs = None
    /\ attempt = 0
    /\ ejobs = <<>>
    /\ outcomes = <<>>
    /\ sleeps = {}
    /\ wait_start = 0
    /\ eexc = None
    /\ result = None
    /\ escaped = FALSE

InitTxn ==
    /\ rollback_actions = <<>>
    /\ rb_pos = 0
    /\ rb_log = <<>>
    /\ rb_failed = <<>>
    /\ propagated = None

\* a process using BackupManager directly
Init ==
    /\ InitManager
    /\ InitEnhanced
    /\ InitTxn
    /\ dirs \in SUBSET {PhiDir}
    /\ settings = [max_retry_attempts |-> 1, retry_delay_seconds |-> RetryDelayMin]

Next ==
    \/ CreateBackup
    \/ CB_StartThread
    \/ CB_Return
    \/ Worker

Spec == Init /\ [][Next]_vars

\* backup_manager.py create <source> [type]
NextCli ==
    \/ CliCreate
    \/ CB_StartThread
    \/ CB_Return
    \/ Worker
    \/ Exit

SpecCli == Init /\ [][NextCli]_vars

\* max_retry_attempts: the least value the settings accept
\* (configs/storage_settings.py:417) and the one the tests run with
\* (tests/backup/test_backup_models.py:95)
RetrySettings == {1, 2}

\* a process calling create_model_backup (backup_models.py --model)
InitModel ==
    /\ InitManager
    /\ InitEnhanced
    /\ InitTxn
    /\ dirs \in SUBSET {PhiDir}
    /\ \E n \in RetrySettings :
          settings = [max_retry_attempts |-> n, retry_delay_seconds |-> RetryDelayMin]

NextModel ==
    \/ CreateModelBackup
    \/ Enhanced
    \/ CB_StartThread
    \/ CB_Return
    \/ Worker
    \/ TxnExcept
    \/ TxnRollbackStep
    \/ TxnReraise

SpecModel == InitModel /\ [][NextModel]_vars

(***************************************************************************)
(* backup_transaction used on its own, as in                               *)
(* tests/backup/test_backup_models.py:196-209: the body registers rollback *)
(* callbacks, which may themselves raise, and then raises or completes.    *)
(***************************************************************************)
ActionIds == {"A", "B", "C"}

\* with self.backup_transaction(name) as rollback_actions (lines 90-95)
T_Enter ==
    /\ alive
    /\ epc = "idle"
    /\ eargs = None
    /\ propagated = None
    /\ epc' = "scope"
    /\ rollback_actions' = <<>>
    /\ UNCHANGED <<now, alive, dirs, settings>>
    /\ UNCHANGED managerVars
    /\ UNCHANGED <<eargs, attempt, ejobs, outcomes, sleeps, wait_start, eexc, result, escaped>>
    /\ UNCHANGED <<rb_pos, rb_log, rb_failed, propagated>>

\* rollback_actions.append(callback)
T_Register ==
    \E id \in ActionIds, raises \in BOOLEAN :
        /\ alive
        /\ epc = "scope"
        /\ Len(rollback_actions) < MaxActions
        /\ rollback_actions' = Append(rollback_actions,
                                      [id |-> id, raises |-> raises, dir |-> <<>>])
        /\ UNCHANGED <<now, alive, dirs, settings>>
        /\ UNCHANGED managerVars
        /\ UNCHANGED enhancedVars
        /\ UNCHANGED <<rb_pos, rb_log, rb_failed, propagated>>

\* the body raises (test line 206: raise ValueError("test error"))
T_BodyRaises ==
    /\ alive
    /\ epc = "scope"
    /\ RaiseInScope(Exc("ValueError", <<"test error">>))
    /\ UNCHANGED <<now, alive, dirs, settings>>
    /\ UNCHANGED managerVars
    /\ UNCHANGED <<eargs, attempt, ejobs, outcomes, sleeps, wait_start, result, escaped>>
    /\ UNCHANGED txnVars

\* the body ends normally: lines 96-97, no callback runs
T_BodyCompletes ==
    /\ alive
    /\ epc = "scope"
    /\ epc' = "scope_done"
    /\ UNCHANGED <<now, alive, dirs, settings>>
    /\ UNCHANGED managerVars
    /\ UNCHANGED <<eargs, attempt, ejobs, outcomes, sleeps, wait_start, eexc, result, escaped>>
    /\ ScopeExit

NextTxn ==
    \/ T_Enter
    \/ T_Register
    \/ T_BodyRaises
    \/ T_BodyCompletes
    \/ TxnExcept
    \/ TxnRollbackStep
    \/ TxnReraise

SpecTxn == Init /\ [][NextTxn]_vars

\* a process that uses backup_transaction on its own or through
\* create_model_backup
NextScope ==
    \/ T_Enter
    \/ T_Register
    \/ T_BodyRaises
    \/ T_BodyCompletes
    \/ CreateModelBackup
    \/ Enhanced
    \/ CB_StartThread
    \/ CB_Return
    \/ Worker
    \/ TxnExcept
    \/ TxnRollbackStep
    \/ TxnReraise

SpecScope == InitModel /\ [][NextScope]_vars

(***************************************************************************)
(* BackupManager.verify_backup (backup_manager.py:281-378) and             *)
(* _verify_backup_checksum (380-408).  A sample rate is a float: a         *)
(* fraction num/den, or one of the non-finite values float() also parses.  *)
(***************************************************************************)
Rate(num, den) == [kind |-> "num", num |-> num, den |-> den]

NegInf == [kind |-> "-inf", num |-> 0, den |-> 1]

NaN == [kind |-> "nan", num |-> 0, den |-> 1]

\* line 316: sample_rate < 1.0
LessThanOne(rate) ==
    CASE rate.kind = "num" -> rate.num < rate.den
      [] rate.kind = "-inf" -> TRUE
      [] OTHER -> FALSE

\* line 317: int(len(all_files) * sample_rate) raises on a non-finite product
IntRaises(total, rate) == rate.kind # "num"

\* int() truncates towards zero
IntOfProduct(total, rate) ==
    LET p == total * rate.num
    IN  IF p >= 0 THEN p \div rate.den ELSE -((-p) \div rate.den)

Max(a, b) == IF a >= b THEN a ELSE b

Min(a, b) == IF a <= b THEN a ELSE b

SampleSizeMayBeZero(total, rate) ==
    IF LessThanOne(rate) THEN Min(IntOfProduct(total, rate), total) ELSE total

\* lines 316-320: how many files are checked
SampleSize(total, rate) ==
    IF LessThanOne(rate) THEN Min(Max(1, IntOfProduct(total, rate)), total) ELSE total

\* lines 327-346: the finding on one file, <<>> when it passes
FileFinding(f) ==
    CASE Cond(f) = "missing" -> <<"Missing file:", f>>
      [] Cond(f) = "unreadable" -> <<"Cannot read file:", f>>
      [] Cond(f) = "corrupt" -> <<"Corrupted file:", f>>
      [] OTHER -> <<>>

\* the findings on a set of files, in the order the files are visited
RECURSIVE Findings(_)
Findings(files) ==
    IF files = {} THEN <<>>
    ELSE LET f == CHOOSE x \in files : TRUE
             rest == Findings(files \ {f})
         IN  IF FileFinding(f) = <<>> THEN rest ELSE <<FileFinding(f)>> \o rest

MatchingJobsAny(backup_path) == LoadBackupMetadata

\* _verify_backup_checksum: the first stored record whose destination has the
\* directory's base name decides; no record, or no checksum in it, passes
MatchingJobs(backup_path) ==
    SelectSeq(LoadBackupMetadata, LAMBDA d : PathName(d.destination_path) = PathName(backup_path))

VerifyBackupChecksum(backup_path) ==
    LET matching_jobs == MatchingJobs(backup_path)
    IN  IF matching_jobs = <<>> THEN TRUE
        ELSE IF matching_jobs[1].checksum = None THEN TRUE
        ELSE DirectoryChecksum(backup_path) = matching_jobs[1].checksum[1]

BackupMissingMsg(backup_path) == <<"Backup directory does not exist:">> \o backup_path

MissingResultReadsMetadata(backup_path) ==
    [backup_path |-> backup_path,
     is_valid |-> FALSE,
     files_checked |-> 0,
     files_failed |-> 0,
     checksum_matches |-> VerifyBackupChecksum(backup_path),
     errors |-> <<BackupMissingMsg(backup_path)>>]

\* lines 292-301
MissingResult(backup_path) ==
    [backup_path |-> backup_path,
     is_valid |-> FALSE,
     files_checked |-> 0,
     files_failed |-> 0,
     checksum_matches |-> FALSE,
     errors |-> <<BackupMissingMsg(backup_path)>>]

ErrorResultChecksumTrue(backup_path, files_checked, files_failed, msg) ==
    [backup_path |-> backup_path,
     is_valid |-> FALSE,
     files_checked |-> files_checked,
     files_failed |-> files_failed,
     checksum_matches |-> TRUE,
     errors |-> << <<"Verification failed:">> \o msg >>]

\* lines 368-378
ErrorResult(backup_path, files_checked, files_failed, msg) ==
    [backup_path |-> backup_path,
     is_valid |-> FALSE,
     files_checked |-> files_checked,
     files_failed |-> files_failed,
     checksum_matches |-> FALSE,
     errors |-> << <<"Verification failed:">> \o msg >>]

\* lines 353-366
NormalResult(backup_path, files_to_check) ==
    LET errors == Findings(files_to_check)
        files_failed == Len(errors)
        checksum_matches == VerifyBackupChecksum(backup_path)
    IN  [backup_path |-> backup_path,
         is_valid |-> (files_failed = 0 /\ checksum_matches),
         files_checked |-> Cardinality(files_to_check),
         files_failed |-> files_failed,
         checksum_matches |-> checksum_matches,
         errors |-> errors]

\* the results verify_backup can return: one for each sample random.sample
\* (line 318) can draw
VerifyBackup(backup_path, sample_rate) ==
    IF backup_path \notin DOMAIN backup_fs
    THEN {MissingResult(backup_path)}
    ELSE LET all_files == backup_fs[backup_path].content
             total == Cardinality(all_files)
         IN  IF LessThanOne(sample_rate) /\ IntRaises(total, sample_rate)
             THEN {ErrorResult(backup_path, 0, 0, <<"cannot convert float to integer">>)}
             ELSE {NormalResult(backup_path, files_to_check) :
                     files_to_check \in {S \in SUBSET all_files :
                         Cardinality(S) = SampleSize(total, sample_rate)}}

\* the rates a caller passes: the default 0.1 (configs/storage_settings.py:400),
\* binary fractions, whose product with a file count a float holds exactly, and
\* the non-finite values.  With at most three files 0.1 * total stays below 1 in
\* floating point as in exact arithmetic.
SampleRates ==
    {Rate(-1, 2), Rate(0, 1), Rate(1, 10), Rate(1, 2), Rate(3, 4), Rate(1, 1),
     Rate(2, 1), NegInf, NaN}

AuditedDir == <<BackupModels, "Phi-3-mini-128k-instruct", "full", "0">>

OtherDir == <<BackupModels, "Phi-3-mini-128k-instruct", "full", "1">>

\* verify_backup(backup_path, sample_rate), lines 281-378
VerifyCall(backup_path, sample_rate) ==
    /\ alive
    /\ vresult = None
    /\ vresult' \in {Some(r) : r \in VerifyBackup(backup_path, sample_rate)}
    /\ vargs' = Some([backup_path |-> backup_path, sample_rate |-> sample_rate])
    /\ UNCHANGED <<hash_in, hash_out, cleaned>>
    /\ UNCHANGED <<now, alive, dirs, settings>>
    /\ UNCHANGED <<jobs, backup_jobs, wpc, wexc, wmeta, wcmd, metadata_file, backup_dir,
                   backup_fs, cpc, cjob, cb_calls, fcond>>
    /\ UNCHANGED enhancedVars
    /\ UNCHANGED txnVars

Verify ==
    \E backup_path \in {AuditedDir, OtherDir}, sample_rate \in SampleRates :
        VerifyCall(backup_path, sample_rate)

\* what reading a listed file can meet: a dangling link (line 327), no read
\* permission (332), an I/O error (343)
Conds == {"ok", "missing", "unreadable", "corrupt"}

\* the record a completed job of the audited directory left in the metadata file
StoredRecord(checksum) ==
    JobDict([NewJob(PhiDir, "full", 0, RandLow) EXCEPT
                !.status = "completed",
                !.start_time = Some(0),
                !.end_time = Some(0),
                !.checksum = checksum])

\* the record of an earlier job with another destination
OtherRecord ==
    JobDict([NewJob(PhiDir, "full", 1, RandLow) EXCEPT
                !.status = "completed",
                !.start_time = Some(1),
                !.end_time = Some(1),
                !.checksum = Some(<<"md5", ModelFiles>>)])

\* the states verify_backup can be called in: the audited directory absent, or
\* holding any of the essential files, each in any condition; the metadata file
\* absent, empty, or holding the directory's record, without a checksum or with
\* the checksum of the files that were readable when the job completed, after
\* the record of another backup or not
InitVerify ==
    /\ now = 0
    /\ alive = TRUE
    /\ jobs = <<>>
    /\ backup_jobs = <<>>
    /\ wpc = <<>>
    /\ wexc = <<>>
    /\ wmeta = <<>>
    /\ wcmd = <<>>
    /\ backup_dir = TRUE
    /\ cpc = "none"
    /\ cjob = 0
    /\ cb_calls = 0
    /\ vresult = None
    /\ vargs = None
    /\ hash_in = <<>>
    /\ hash_out = <<>>
    /\ cleaned = None
    /\ \E present \in BOOLEAN, content \in SUBSET EssentialFiles :
         /\ backup_fs = IF present THEN AuditedDir :> [mtime |-> 0, content |-> content]
                        ELSE <<>>
         /\ fcond \in [content -> Conds]
         /\ \E before \in {<<>>, <<OtherRecord>>} :
               metadata_file \in
                 {None, Some(before), Some(before \o <<StoredRecord(None)>>)}
                 \cup {Some(before \o <<StoredRecord(Some(<<"md5", S>>))>>) :
                          S \in SUBSET content}
    /\ InitEnhanced
    /\ InitTxn
    /\ dirs = {PhiDir}
    /\ settings = [max_retry_attempts |-> 1, retry_delay_seconds |-> RetryDelayMin]

NextVerify == Verify

SpecVerify == InitVerify /\ [][NextVerify]_vars

(***************************************************************************)
(* BackupManager.cleanup_old_backups (backup_manager.py:444-473).          *)
(***************************************************************************)
SecondsPerDay == 86400

DefaultRetentionDays == 30

\* days from datetime.min (0001-01-01) to the epoch the clock counts from
DaysToEpoch == 719162

RetentionOrDefault(retention_days) ==
    IF retention_days = None \/ retention_days = Some(0)
    THEN DefaultRetentionDays ELSE retention_days[1]

\* lines 446-447: if retention_days is None: use settings.backup.retention_days
EffectiveRetention(retention_days) ==
    IF retention_days = None THEN DefaultRetentionDays ELSE retention_days[1]

\* line 449 raises OverflowError when the date would fall before datetime.min
CutoffRaises(t, days) == days > DaysToEpoch + t \div SecondsPerDay

\* line 449: cutoff_date = datetime.now() - timedelta(days=retention_days)
CutoffDate(t, days) == t - days * SecondsPerDay

\* line 461: mod_time < cutoff_date
Expired(path, cutoff_date) == backup_fs[path].mtime < cutoff_date

RECURSIVE RemovedUntilFailure(_, _, _)
RemovedUntilFailure(items, cutoff_date, unremovable) ==
    IF items = <<>> THEN <<>>
    ELSE IF ~Expired(items[1], cutoff_date)
    THEN RemovedUntilFailure(Tail(items), cutoff_date, unremovable)
    ELSE IF items[1] \in unremovable THEN <<>>
    ELSE <<items[1]>> \o RemovedUntilFailure(Tail(items), cutoff_date, unremovable)

\* lines 457-467: removed_backups after the scan of `items`, the directories in
\* iterdir order; shutil.rmtree raises on those in `unremovable`, the handler of
\* line 466 logs it and the loop goes on
RemovedBackups(items, cutoff_date, unremovable) ==
    SelectSeq(items, LAMBDA d : Expired(d, cutoff_date) /\ d \notin unremovable)

SeqRange(q) == {q[i] : i \in 1..Len(q)}

\* the orders iterdir can list a set of directories in
Listings(ds) ==
    {q \in [1..Cardinality(ds) -> ds] : SeqRange(q) = ds}

\* what the scan leaves of the backup directories: those removed are gone, one
\* whose removal failed keeps whatever rmtree had not deleted yet
AfterScan(removed, failed, kept) ==
    [d \in DOMAIN backup_fs \ SeqRange(removed) |->
        IF d \in failed
        THEN [mtime |-> backup_fs[d].mtime, content |-> kept[d]]
        ELSE backup_fs[d]]

\* cleanup_old_backups(retention_days)
CleanupCall(retention_days) ==
    /\ alive
    /\ cleaned = None
    /\ LET days == EffectiveRetention(retention_days)
           cutoff_date == CutoffDate(now, days)
       IN  IF CutoffRaises(now, days)
           THEN /\ cleaned' = Some([retention_days |-> retention_days, raised |-> TRUE,
                                    items |-> <<>>, removed |-> <<>>, failed |-> {}])
                /\ UNCHANGED backup_fs
           ELSE IF ~backup_dir
           THEN /\ cleaned' = Some([retention_days |-> retention_days, raised |-> FALSE,
                                    items |-> <<>>, removed |-> <<>>, failed |-> {}])
                /\ UNCHANGED backup_fs
           ELSE \E items \in Listings(DOMAIN backup_fs),
                   unremovable \in SUBSET {d \in DOMAIN backup_fs : Expired(d, cutoff_date)} :
                  \E kept \in [unremovable -> SUBSET ModelFiles] :
                     LET removed == RemovedBackups(items, cutoff_date, unremovable)
                     IN  /\ \A d \in unremovable : kept[d] \subseteq backup_fs[d].content
                         /\ backup_fs' = AfterScan(removed, unremovable, kept)
                         /\ cleaned' = Some([retention_days |-> retention_days,
                                             raised |-> FALSE,
                                             items |-> items,
                                             removed |-> removed,
                                             failed |-> unremovable])
    /\ UNCHANGED <<now, alive, dirs, settings>>
    /\ UNCHANGED <<jobs, backup_jobs, wpc, wexc, wmeta, wcmd, metadata_file, backup_dir,
                   cpc, cjob, cb_calls, fcond>>
    /\ UNCHANGED <<vresult, vargs, hash_in, hash_out>>
    /\ UNCHANGED enhancedVars
    /\ UNCHANGED txnVars

\* the moment of the call: a clock late enough for every age below
CleanupClock == (DefaultRetentionDays + 2) * SecondsPerDay

\* a retention reaching back before datetime.min
OverflowingDays == DaysToEpoch + CleanupClock \div SecondsPerDay + 1

RetentionChoices == {None, Some(0), Some(1), Some(OverflowingDays)}

Cleanup == \E retention_days \in RetentionChoices : CleanupCall(retention_days)

\* ages of the backup directories, in seconds
Ages == {1, SecondsPerDay, SecondsPerDay + 1, DefaultRetentionDays * SecondsPerDay + 1}

BackupDirs == {AuditedDir, OtherDir, <<BackupModels, "Phi-3-mini-128k-instruct", "incremental", "2">>}

\* the backup root absent, or holding any of three backup directories of any age
InitCleanup ==
    /\ now = CleanupClock
    /\ alive = TRUE
    /\ jobs = <<>>
    /\ backup_jobs = <<>>
    /\ wpc = <<>>
    /\ wexc = <<>>
    /\ wmeta = <<>>
    /\ wcmd = <<>>
    /\ metadata_file = None
    /\ cpc = "none"
    /\ cjob = 0
    /\ cb_calls = 0
    /\ fcond = <<>>
    /\ vresult = None
    /\ vargs = None
    /\ hash_in = <<>>
    /\ hash_out = <<>>
    /\ cleaned = None
    /\ backup_dir \in BOOLEAN
    /\ \E present \in SUBSET BackupDirs :
          \E age \in [present -> Ages] :
             /\ ~backup_dir => present = {}
             /\ backup_fs = [d \in present |->
                               [mtime |-> now - age[d], content |-> {"config.json"}]]
    /\ InitEnhanced
    /\ InitTxn
    /\ dirs = {PhiDir}
    /\ settings = [max_retry_attempts |-> 1, retry_delay_seconds |-> RetryDelayMin]

NextCleanup == Cleanup

SpecCleanup == InitCleanup /\ [][NextCleanup]_vars

(***************************************************************************)
(* A manager whose jobs are verified once they have completed.  Calls of   *)
(* create_backup may fall in the same second, and then two jobs of one     *)
(* source and type share a destination.                                    *)
(***************************************************************************)
CreateBackupAt ==
    \E backup_type \in BackupTypes, rand \in {RandLow}, t \in {now, now + 1} :
        /\ epc = "idle"
        /\ cb_calls < MaxJobs
        /\ CB_Enter(PhiDir, backup_type, rand, t)
        /\ UNCHANGED <<alive, dirs, settings>>
        /\ UNCHANGED enhancedVars
        /\ UNCHANGED txnVars

\* verify_backup(job.destination_path, 1.0) for a job seen completed
VerifyJob ==
    \E j \in Workers :
        /\ jobs[j].status = "completed"
        /\ VerifyCall(jobs[j].destination_path, Rate(1, 1))

InitAudit ==
    /\ InitManager
    /\ InitEnhanced
    /\ InitTxn
    /\ dirs = {PhiDir}
    /\ settings = [max_retry_attempts |-> 1, retry_delay_seconds |-> RetryDelayMin]

NextAudit ==
    \/ CreateBackupAt
    \/ CB_StartThread
    \/ CB_Return
    \/ Worker
    \/ VerifyJob

SpecAudit == InitAudit /\ [][NextAudit]_vars

(***************************************************************************)
(* Incremental jobs of a manager whose backup root may hold the backups    *)
(* that earlier runs left, an older one and a newer one.                   *)
(***************************************************************************)
\* create_backup(source_path): backup_type defaults to "incremental" (line 101)
CreateBackupDefault ==
    \E rand \in {RandLow}, t \in {now + 1} :
        /\ epc = "idle"
        /\ cb_calls < MaxJobs
        /\ CB_Enter(PhiDir, "incremental", rand, t)
        /\ UNCHANGED <<alive, dirs, settings>>
        /\ UNCHANGED enhancedVars
        /\ UNCHANGED txnVars

InitLink ==
    /\ now = 2
    /\ alive = TRUE
    /\ jobs = <<>>
    /\ backup_jobs = <<>>
    /\ wpc = <<>>
    /\ wexc = <<>>
    /\ wmeta = <<>>
    /\ wcmd = <<>>
    /\ metadata_file = None
    /\ cpc = "none"
    /\ cjob = 0
    /\ cb_calls = 0
    /\ fcond = <<>>
    /\ vresult = None
    /\ vargs = None
    /\ hash_in = <<>>
    /\ hash_out = <<>>
    /\ cleaned = None
    /\ backup_dir \in BOOLEAN
    /\ \E left \in {{}, {OtherDir}, {AuditedDir, OtherDir}} :
          /\ ~backup_dir => left = {}
          /\ backup_fs = [d \in left |->
                            [mtime |-> IF d = AuditedDir THEN 0 ELSE 1,
                             content |-> ModelFiles]]
    /\ InitEnhanced
    /\ InitTxn
    /\ dirs = {PhiDir}
    /\ settings = [max_retry_attempts |-> 1, retry_delay_seconds |-> RetryDelayMin]

NextLink ==
    \/ CreateBackupDefault
    \/ CB_StartThread
    \/ CB_Return
    \/ Worker

SpecLink == InitLink /\ [][NextLink]_vars

(***************************************************************************)
(* BackupManager._calculate_directory_checksum (backup_manager.py:255-279) *)
(* at the level of bytes.  A tree is one directory: a function from file   *)
(* name to file content, names and contents being sequences of bytes.      *)
(***************************************************************************)
MaxNameLen == 3

\* the bytes of "a" and "b"
Bytes == {97, 98}

FileNames == UNION {[1..n -> Bytes] : n \in 1..MaxNameLen}

FileContents == {<<>>, <<97>>}

TreeSizes == {1, 2}

\* str.__lt__, the order files.sort() uses (line 262)
RECURSIVE LexLess(_, _)
LexLess(a, b) ==
    IF a = <<>> THEN b # <<>>
    ELSE IF b = <<>> THEN FALSE
    ELSE IF a[1] # b[1] THEN a[1] < b[1]
    ELSE LexLess(Tail(a), Tail(b))

FirstName(names) == CHOOSE n \in names : \A m \in names \ {n} : LexLess(n, m)

\* lines 264-274: what hash_md5.update receives, file after file in sorted
\* order: the file's bytes, then its relative path
RECURSIVE HashStream(_)
HashStream(tree) ==
    IF DOMAIN tree = {} THEN <<>>
    ELSE LET n == FirstName(DOMAIN tree)
         IN  tree[n] \o n \o HashStream([m \in DOMAIN tree \ {n} |-> tree[m]])

\* hashlib.md5 taken as collision-free: equal digests exactly for equal streams
Md5(stream) == <<"md5", stream>>

CalculateDirectoryChecksum(tree) == Md5(HashStream(tree))

\* the same tree with one file under another name
Rename(tree, old, new) ==
    [n \in (DOMAIN tree \ {old}) \cup {new} |-> IF n = new THEN tree[old] ELSE tree[n]]

\* one call of _calculate_directory_checksum, on the i-th tree
HashTree(i) ==
    /\ alive
    /\ i \in 1..Len(hash_in)
    /\ hash_out[i] = None
    /\ hash_out' = [hash_out EXCEPT ![i] = Some(CalculateDirectoryChecksum(hash_in[i]))]
    /\ UNCHANGED <<now, alive, dirs, settings>>
    /\ UNCHANGED <<jobs, backup_jobs, wpc, wexc, wmeta, wcmd, metadata_file, backup_dir,
                   backup_fs, cpc, cjob, cb_calls, fcond>>
    /\ UNCHANGED <<vresult, vargs, hash_in, cleaned>>
    /\ UNCHANGED enhancedVars
    /\ UNCHANGED txnVars

HashFirst == HashTree(1)

HashSecond == HashTree(2)

\* two trees with the same file contents that differ in the name of one file
InitChecksum ==
    /\ now = 0
    /\ alive = TRUE
    /\ jobs = <<>>
    /\ backup_jobs = <<>>
    /\ wpc = <<>>
    /\ wexc = <<>>
    /\ wmeta = <<>>
    /\ wcmd = <<>>
    /\ metadata_file = None
    /\ backup_dir = TRUE
    /\ backup_fs = <<>>
    /\ cpc = "none"
    /\ cjob = 0
    /\ cb_calls = 0
    /\ fcond = <<>>
    /\ vresult = None
    /\ vargs = None
    /\ cleaned = None
    /\ \E names \in {N \in SUBSET FileNames : Cardinality(N) \in TreeSizes} :
          \E tree \in [names -> FileContents], old \in names, new \in FileNames \ names :
              hash_in = <<tree, Rename(tree, old, new)>>
    /\ hash_out = <<None, None>>
    /\ InitEnhanced
    /\ InitTxn
    /\ dirs = {PhiDir}
    /\ settings = [max_retry_attempts |-> 1, retry_delay_seconds |-> RetryDelayMin]

NextChecksum ==
    \/ HashFirst
    \/ HashSecond

SpecChecksum == InitChecksum /\ [][NextChecksum]_vars

(***************************************************************************)
(* Properties.                                                             *)
(***************************************************************************)
Launched(j) == wpc[j] # "unstarted"

InLedger(j) ==
    /\ jobs[j].job_id \in DOMAIN backup_jobs
    /\ backup_jobs[jobs[j].job_id] = j

\* C1: a job's status changes only pending -> running, running -> completed or
\* running -> failed; so a completed or failed job keeps its status for good and
\* no job goes back to pending or running.
C1_StatusOrder ==
    [][\A j \in 1..Len(jobs) :
          jobs'[j].status # jobs[j].status =>
              <<jobs[j].status, jobs'[j].status>> \in
                  {<<"pending", "running">>, <<"running", "completed">>,
                   <<"running", "failed">>}]_vars

\* one job has run to completed and another to failed
C1_Witness ==
    /\ \E j \in 1..Len(jobs) : jobs[j].status = "completed" /\ wpc[j] = "done"
    /\ \E j \in 1..Len(jobs) : jobs[j].status = "failed" /\ wpc[j] = "done"

\* C2 as stated: the job is in the ledger under its job_id before the worker is
\* launched, and it is pending at the moment create_backup returns, whatever the
\* launched worker has done by then.
C2_PendingAtReturn ==
    /\ cpc = "start" => InLedger(cjob) /\ ~Launched(cjob)
    /\ cpc = "return" => InLedger(cjob) /\ jobs[cjob].status = "pending"

\* C2, amended: the job is in the ledger under its job_id and pending before the
\* worker is launched; create_backup then returns without a step that waits for
\* the worker, so at its return the job is in the ledger in whatever status the
\* worker has reached.
C2_PendingAtLaunch ==
    /\ cpc = "start" =>
          InLedger(cjob) /\ ~Launched(cjob) /\ jobs[cjob].status = "pending"
    /\ cpc = "return" =>
          /\ InLedger(cjob) /\ Launched(cjob)
          /\ jobs[cjob].status \in {"pending", "running", "completed", "failed"}

\* create_backup is about to return a job its worker has already finished
C2_Witness ==
    /\ cpc = "return"
    /\ InLedger(cjob)
    /\ jobs[cjob].status = "completed"

\* C3 as stated: nothing stops a launched worker before its job is terminal; so
\* once the process has ended, every launched job is completed or failed.
C3_LaunchedJobsFinish ==
    ~alive => \A j \in 1..Len(jobs) : Launched(j) => Terminal(jobs[j].status)

\* C4: every VerificationResult has is_valid true exactly when files_failed is 0
\* and checksum_matches is true.
C4_IsValidIff ==
    vresult # None =>
        (vresult[1].is_valid <=>
            (vresult[1].files_failed = 0 /\ vresult[1].checksum_matches))

\* the exception path returned: the directory exists and the result carries the
\* handler's error
C4_Witness ==
    /\ vresult # None
    /\ vresult[1].backup_path \in DOMAIN backup_fs
    /\ vresult[1].errors # <<>>
    /\ vresult[1].errors[1][1] = "Verification failed:"
    /\ ~vresult[1].is_valid

\* C5: when the jobs of attempts 1..k-1 failed and the job of attempt k
\* completed, k is at most max_retry_attempts, exactly k jobs were created (k
\* create_backup calls, k ledger entries), no further attempt is made, and the
\* result returned has success = true.
C5_SuccessAtAttemptK ==
    LET k == Len(outcomes)
    IN  (/\ k > 0
         /\ outcomes[k] = "completed"
         /\ \A i \in 1..(k - 1) : outcomes[i] = "failed")
        => /\ k <= settings.max_retry_attempts
           /\ attempt = k
           /\ Len(ejobs) = k
           /\ cb_calls = k
           /\ Len(jobs) = k
           /\ Cardinality(DOMAIN backup_jobs) = k
           /\ epc \in {"success", "idle"}
           /\ epc = "idle" => result # None /\ result[1].success

\* the first job failed, the second completed, and the call has returned
C5_Witness ==
    /\ outcomes = <<"failed", "completed">>
    /\ result # None
    /\ result[1].success
    /\ Len(jobs) = 2

\* C6: there are never more than max_retry_attempts attempts, and the delay is
\* slept only after an attempt that is not the last; when every attempt's job
\* failed or timed out and the call has returned, exactly max_retry_attempts
\* attempts were made, the delay was slept after each but the last, success is
\* false and errors is not empty.
C6_AllAttemptsFail ==
    /\ Len(outcomes) <= settings.max_retry_attempts
    /\ cb_calls <= settings.max_retry_attempts
    /\ sleeps \subseteq 1..(settings.max_retry_attempts - 1)
    /\ (/\ result # None
        /\ outcomes # <<>>
        /\ \A i \in 1..Len(outcomes) : outcomes[i] \in {"failed", "timeout"})
       => /\ Len(outcomes) = settings.max_retry_attempts
          /\ Len(ejobs) = settings.max_retry_attempts
          /\ sleeps = 1..(settings.max_retry_attempts - 1)
          /\ now >= (settings.max_retry_attempts - 1) * settings.retry_delay_seconds
          /\ ~result[1].success
          /\ result[1].errors # <<>>

\* two attempts, the first timed out and the second failed, one sleep between
C6_Witness ==
    /\ settings.max_retry_attempts = 2
    /\ outcomes = <<"timeout", "failed">>
    /\ sleeps = {1}
    /\ result # None
    /\ ~result[1].success

\* C7: no exception leaves create_model_backup; a call that has ended has
\* returned a result, and a result with success = false carries the text of the
\* exception in errors.
C7_NeverRaises ==
    /\ ~escaped
    /\ (eargs # None /\ epc = "idle") => result # None
    /\ (result # None /\ ~result[1].success) =>
          /\ propagated # None
          /\ result[1].errors = <<propagated[1].msg>>

\* a test-mode call failed after its retries, its rollback ran, and the scratch
\* directory could not be removed
C7_Witness ==
    /\ result # None
    /\ ~result[1].success
    /\ rb_log # <<>>
    /\ \E d \in dirs : d[1] = ModelsStaging
    /\ Contains(result[1].message, "backup attempts failed:")

\* C8: a call for a name that has no configured directory, or whose directory
\* does not exist, creates no job and makes no attempt, and what it returns has
\* success = false, the model_name given, and a message containing "not found"
\* (no directory configured) or "does not exist" (directory missing).
C8_LookupFailure ==
    LET name == eargs[1].model_name
        key == IF name \in DOMAIN ModelMapping THEN ModelMapping[name] ELSE name
        unknown == key \notin DOMAIN ModelDirectories
        missing == ~unknown /\ <<ModelsActive, ModelDirectories[key]>> \notin dirs
    IN  (eargs # None /\ (unknown \/ missing))
        => /\ jobs = <<>>
           /\ backup_jobs = <<>>
           /\ cb_calls = 0
           /\ attempt = 0
           /\ outcomes = <<>>
           /\ sleeps = {}
           /\ result # None =>
                /\ ~result[1].success
                /\ result[1].model_name = name
                /\ unknown => Contains(result[1].message, "not found")
                /\ missing => Contains(result[1].message, "does not exist")

\* the call for an unknown name has returned
C8_Witness ==
    /\ result # None
    /\ result[1].model_name = "nonexistent_model"
    /\ Contains(result[1].message, "not found")
    /\ jobs = <<>>

\* C9: while and after the handler of a failing scope runs the rollback actions,
\* the actions invoked so far are the last-registered ones, latest first; when
\* the handler is done every registered action has been invoked exactly once.
C9_ReverseOrder ==
    epc \in {"rollback", "scope_raised"} =>
        /\ Len(rb_log) = Len(rollback_actions) - rb_pos
        /\ \A i \in 1..Len(rb_log) :
              rb_log[i] = rollback_actions[Len(rollback_actions) - i + 1].id
        /\ epc = "scope_raised" => Len(rb_log) = Len(rollback_actions)

\* A was registered before B, the body raised, and B ran before A
C9_Witness ==
    /\ epc = "scope_raised"
    /\ Len(rollback_actions) = 2
    /\ rollback_actions[1].id = "A"
    /\ rollback_actions[2].id = "B"
    /\ rb_log = <<"B", "A">>

\* C10: when a failing scope has been left, every registered rollback action
\* was attempted, those that raise included, and the exception that left the
\* scope is the one the body raised.
C10_OriginalPropagates ==
    epc = "scope_raised" =>
        /\ Len(rb_log) = Len(rollback_actions)
        /\ Len(rb_failed) = Cardinality({i \in 1..Len(rollback_actions) :
                                            rollback_actions[i].raises})
        /\ propagated = Some(Exc("ValueError", <<"test error">>))

\* the action that ran first raised, the other one still ran, and the body's
\* exception left the scope
C10_Witness ==
    /\ epc = "scope_raised"
    /\ Len(rollback_actions) = 2
    /\ rollback_actions[2].raises
    /\ ~rollback_actions[1].raises
    /\ Len(rb_log) = 2
    /\ rb_failed # <<>>
    /\ propagated = Some(Exc("ValueError", <<"test error">>))

\* C11: when a backup_transaction scope has ended without an exception, on its
\* own or as a successful create_model_backup, no rollback action has been
\* invoked; the scratch directories of a test-mode call are still there.
C11_NoRollbackOnSuccess ==
    (epc = "scope_done" \/ (result # None /\ result[1].success)) =>
        /\ rb_log = <<>>
        /\ rb_failed = <<>>
        /\ \A i \in 1..Len(rollback_actions) :
              rollback_actions[i].dir # <<>> => rollback_actions[i].dir \in dirs

\* a test-mode call succeeded on its second attempt with two cleanups registered
C11_Witness ==
    /\ result # None
    /\ result[1].success
    /\ Len(rollback_actions) = 2
    /\ rb_log = <<>>

\* C12 as stated: two trees with the same file contents that differ only in the
\* name of one file feed different streams to the hash, so their checksums
\* differ.
C12_PathSensitive ==
    (Len(hash_out) = 2 /\ hash_out[1] # None /\ hash_out[2] # None) =>
        hash_out[1] # hash_out[2]

\* the files of the directory a verify_backup call was made on
VerifiedTotal == Cardinality(backup_fs[vargs[1].backup_path].content)

VerifiedExisting == vresult # None /\ vargs[1].backup_path \in DOMAIN backup_fs

C14_MissingDirectory ==
    [][(vresult = None /\ vresult' # None /\ vargs'[1].backup_path \notin DOMAIN backup_fs)
          => /\ vresult'[1] =
                  [backup_path |-> vargs'[1].backup_path,
                   is_valid |-> FALSE,
                   files_checked |-> 0,
                   files_failed |-> 0,
                   checksum_matches |-> FALSE,
                   errors |-> << <<"Backup directory does not exist:">>
                                   \o vargs'[1].backup_path >>]
             /\ UNCHANGED <<jobs, backup_jobs, metadata_file, backup_dir, backup_fs,
                            fcond, dirs>>]_vars

\* the call returned for a missing path while the metadata file exists
C14_Witness ==
    /\ vresult # None
    /\ vargs[1].backup_path \notin DOMAIN backup_fs
    /\ metadata_file # None
    /\ vresult[1].files_checked = 0
    /\ StartsWith(vresult[1].errors[1], <<"Backup directory does not exist:">>)

\* C15: on the normal path of verify_backup, checksum_matches is true when no
\* stored record has the directory's base name or that record has no checksum;
\* when the record has a checksum, checksum_matches is true exactly when the
\* checksum recomputed from the directory equals the recorded one.
C15_ChecksumLookup ==
    (VerifiedExisting /\ vargs[1].sample_rate.kind # "-inf") =>
        LET path == vargs[1].backup_path
            docs == LoadBackupMetadata
            idx == {i \in 1..Len(docs) :
                       PathName(docs[i].destination_path) = PathName(path)}
            rec == docs[CHOOSE i \in idx : \A k \in idx : i <= k]
            cm == vresult[1].checksum_matches
        IN  /\ idx = {} => cm
            /\ idx # {} =>
                 /\ rec.checksum = None => cm
                 /\ rec.checksum # None =>
                       (cm <=> DirectoryChecksum(path) = rec.checksum[1])

\* the directory's record comes second in the file and its checksum no longer
\* matches: a file recorded as hashed cannot be read now
C15_Witness ==
    /\ VerifiedExisting
    /\ vargs[1].sample_rate = Rate(1, 1)
    /\ Len(LoadBackupMetadata) = 2
    /\ LoadBackupMetadata[2].checksum = Some(<<"md5", EssentialFiles>>)
    /\ \E f \in EssentialFiles : Cond(f) = "unreadable"
    /\ ~vresult[1].checksum_matches

C17_RemovesExactlyExpired ==
    [][(cleaned = None /\ cleaned' # None) =>
        LET r == cleaned'[1]
            days == IF r.retention_days = None
                    THEN DefaultRetentionDays ELSE r.retention_days[1]
            gone == DOMAIN backup_fs \ DOMAIN backup_fs'
        IN  IF r.raised THEN backup_fs' = backup_fs
            ELSE /\ DOMAIN backup_fs' \subseteq DOMAIN backup_fs
                 /\ r.failed = {} =>
                       \A d \in DOMAIN backup_fs :
                          d \in gone <=> backup_fs[d].mtime < now - days * SecondsPerDay
                 /\ (r.failed = {} /\ days = 0) =>
                       \A d \in DOMAIN backup_fs : backup_fs[d].mtime < now => d \in gone
                 /\ (\A d \in DOMAIN backup_fs :
                        now - backup_fs[d].mtime < days * SecondsPerDay) => gone = {}
                 /\ SeqRange(r.removed) = gone
                 /\ Len(r.removed) = Cardinality(gone)
                 /\ \A d \in DOMAIN backup_fs' :
                       d \notin r.failed => backup_fs'[d] = backup_fs[d]]_vars

\* retention 0 has removed three backup directories and returned their paths
C17_Witness ==
    /\ cleaned # None
    /\ cleaned[1].retention_days = Some(0)
    /\ ~cleaned[1].raised
    /\ Len(cleaned[1].removed) = 3
    /\ DOMAIN backup_fs = {}

\* C18: when the removal of an expired directory fails the call still returns
\* normally, every other expired directory is removed and returned, and the
\* failed directory stays on disk and is absent from the returned list
C18_FailureDoesNotStopScan ==
    [][(cleaned = None /\ cleaned' # None /\ cleaned'[1].failed # {}) =>
        LET r == cleaned'[1]
            days == IF r.retention_days = None
                    THEN DefaultRetentionDays ELSE r.retention_days[1]
        IN  /\ ~r.raised
            /\ \A d \in DOMAIN backup_fs :
                  (backup_fs[d].mtime < now - days * SecondsPerDay /\ d \notin r.failed)
                     => (d \notin DOMAIN backup_fs' /\ d \in SeqRange(r.removed))
            /\ \A d \in r.failed :
                  d \in DOMAIN backup_fs' /\ d \notin SeqRange(r.removed)]_vars

\* the first directory scanned could not be removed, and the two scanned after
\* it were removed and returned
C18_Witness ==
    /\ cleaned # None
    /\ ~cleaned[1].raised
    /\ Len(cleaned[1].items) = 3
    /\ cleaned[1].failed = {cleaned[1].items[1]}
    /\ cleaned[1].removed = Tail(cleaned[1].items)
    /\ DOMAIN backup_fs = cleaned[1].failed

\* C19: once a job's execution has ended, completed or failed, the metadata
\* store holds the job's record (its dict form with ISO timestamps)
C19_TerminalJobRecorded ==
    \A j \in Workers :
       (wpc[j] = "done" /\ jobs[j].status \in {"completed", "failed"}) =>
          \E i \in 1..Len(LoadBackupMetadata) : LoadBackupMetadata[i] = JobDict(jobs[j])

\* C20: whatever the interleaving of the workers' load and rewrite steps, the
\* metadata store holds a record for every job that has completed and saved;
\* no record is lost or overwritten
C20_NoRecordLost ==
    /\ \A j \in Workers :
          (wpc[j] = "done" /\ jobs[j].status = "completed") =>
             \E i \in 1..Len(LoadBackupMetadata) :
                LoadBackupMetadata[i].job_id = jobs[j].job_id
    /\ Len(LoadBackupMetadata) =
          Cardinality({j \in Workers : wpc[j] = "done" /\ jobs[j].status = "completed"})

\* C21: no two jobs created by one manager share a destination_path
C21_DistinctDestinations ==
    \A i, j \in 1..Len(jobs) :
       i # j => jobs[i].destination_path # jobs[j].destination_path

\* C22: every step a worker takes on finding its source missing, and in the
\* handler that follows, writes nothing: the backup root, the backup
\* directories and the metadata file stay as they are, the archive tool has not
\* been run and the checksum stays None; when the handler is through, the job is failed, its end_time is set and
\* errors holds the missing-source message
C22_MissingSourceWritesNothing ==
    [][\A j \in Workers :
          LET msg == SourceMissingMsg(jobs[j].source_path)
              found_missing == wpc[j] = "validate" /\ jobs[j].source_path \notin dirs
              handling == wpc[j] \in {"x_status", "x_end", "x_err"} /\ wexc[j] = Some(msg)
          IN  ((found_missing \/ handling) /\ wpc'[j] # wpc[j]) =>
                 /\ backup_dir' = backup_dir
                 /\ backup_fs' = backup_fs
                 /\ metadata_file' = metadata_file
                 /\ wcmd'[j] = None
                 /\ jobs'[j].checksum = None
                 /\ found_missing => (wpc'[j] = "x_status" /\ wexc'[j] = Some(msg))
                 /\ wpc'[j] \in {"x_status", "x_end", "x_err", "done"}
                 /\ wpc'[j] = "done" =>
                       /\ jobs'[j].status = "failed"
                       /\ jobs'[j].end_time # None
                       /\ jobs'[j].errors = <<msg>>]_vars

\* a job has ended on a missing source with nothing on disk: no backup root, no
\* backup directory, no metadata file
C22_Witness ==
    \E j \in Workers :
       /\ wpc[j] = "done"
       /\ jobs[j].status = "failed"
       /\ jobs[j].errors = <<SourceMissingMsg(jobs[j].source_path)>>
       /\ jobs[j].end_time # None
       /\ jobs[j].checksum = None
       /\ wcmd[j] = None
       /\ ~backup_dir
       /\ backup_fs = <<>>
       /\ metadata_file = None

C24_FieldsByStatus ==
    \A j \in 1..Len(jobs) :
       /\ jobs[j].status = "completed" =>
             (jobs[j].checksum # None /\ jobs[j].errors = <<>>)
       /\ jobs[j].status = "pending" =>
             /\ jobs[j].start_time = None
             /\ jobs[j].end_time = None
             /\ jobs[j].checksum = None
             /\ jobs[j].errors = <<>>

\* one job completed, before its end_time is set, beside one still pending
C24_Witness ==
    /\ Len(jobs) = 2
    /\ \E j \in 1..2 : jobs[j].status = "completed" /\ jobs[j].end_time = None
    /\ \E j \in 1..2 : jobs[j].status = "pending" /\ wpc[j] = "run"

C26_LinkAgainstNewest ==
    [][\A j \in Workers :
          (wpc[j] = "copy" /\ wpc'[j] # "copy" /\ jobs[j].backup_type # "full") =>
             LET matching == {d \in DOMAIN backup_fs :
                                 /\ backup_dir
                                 /\ Len(PathName(jobs[j].source_path)) <= Len(PathName(d))
                                 /\ \A i \in 1..Len(PathName(jobs[j].source_path)) :
                                       PathName(d)[i] = PathName(jobs[j].source_path)[i]}
             IN  IF matching = {}
                 THEN wcmd'[j] = Some(None)
                 ELSE \E d \in matching :
                         /\ wcmd'[j] = Some(Some(d))
                         /\ \A e \in matching : backup_fs[e].mtime <= backup_fs[d].mtime]_vars

\* an incremental job has run the archive tool with the hint at the newer of two
\* backups left by earlier runs, and a second job has run the tool as well
C26_Witness ==
    /\ Len(jobs) = 2
    /\ AuditedDir \in DOMAIN backup_fs
    /\ OtherDir \in DOMAIN backup_fs
    /\ backup_fs[AuditedDir].mtime < backup_fs[OtherDir].mtime
    /\ wcmd[1] = Some(Some(OtherDir))
    /\ wcmd[2] # None

\* C27: the directory a job links against is the destination of another job of
\* the same manager with the same source_path, one that had made its backup
\* before, and is never the job's own destination
C27_LinksPriorBackupOfSameSource ==
    \A j \in 1..Len(jobs) :
       (wcmd[j] # None /\ wcmd[j][1] # None) =>
          /\ wcmd[j][1][1] # jobs[j].destination_path
          /\ \E i \in 1..Len(jobs) :
                /\ i # j
                /\ jobs[i].destination_path = wcmd[j][1][1]
                /\ jobs[i].source_path = jobs[j].source_path

\* C28: a job has run the archive tool only if its source exists and it has
\* started; it has a checksum only if the archive tool ran and left the
\* source's files at the destination; and every record of the metadata store
\* is that of a completed job with checksum, start_time and end_time set
C28_StepOrder ==
    /\ \A j \in Workers :
          /\ wcmd[j] # None =>
                /\ jobs[j].source_path \in dirs
                /\ jobs[j].start_time # None
                /\ backup_dir
          /\ jobs[j].checksum # None =>
                /\ wcmd[j] # None
                /\ jobs[j].destination_path \in DOMAIN backup_fs
                /\ SourceFiles(jobs[j].source_path)
                      \subseteq backup_fs[jobs[j].destination_path].content
          /\ wmeta[j] # None => jobs[j].checksum # None
    /\ \A i \in 1..Len(LoadBackupMetadata) :
          LET record == LoadBackupMetadata[i]
          IN  /\ record.status = "completed"
              /\ record.checksum # None
              /\ record.start_time # None
              /\ record.end_time # None
              /\ \E j \in Workers :
                    jobs[j].job_id = record.job_id /\ jobs[j].checksum = record.checksum

\* two jobs have gone through all four steps and both records are stored
C28_Witness ==
    /\ Len(LoadBackupMetadata) = 2
    /\ \A j \in Workers : wpc[j] = "done" /\ jobs[j].status = "completed"
    /\ wcmd[2] # None /\ wcmd[2][1] # None

\* C29, as the spec states it: when a test-mode create_model_backup call has
\* returned a failure, no scratch directory is left
C29_ScratchRemoved ==
    (epc = "idle" /\ result # None /\ ~result[1].success /\ eargs[1].test_mode) =>
       \A d \in dirs : d[1] # ModelsStaging

\* C29, amended: when a test-mode call has returned a failure, one cleanup was
\* registered per attempt made, every one of them has been invoked, and a
\* scratch directory that is left is one whose cleanup was invoked (its removal
\* failed, which _cleanup_directory swallows)
C29_ScratchCleanupInvoked ==
    (epc = "idle" /\ result # None /\ ~result[1].success /\ eargs[1].test_mode) =>
       /\ Len(rollback_actions) = Len(outcomes)
       /\ Len(rb_log) = Len(rollback_actions)
       /\ \A i \in 1..Len(rb_log) : rb_log[i] = "cleanup"
       /\ \A d \in dirs :
             d[1] = ModelsStaging =>
                \E i \in 1..Len(rollback_actions) : rollback_actions[i].dir = d

\* a test-mode call has failed after two attempts, the second on a failed copy
\* into the subset, and both scratch directories are gone
C29_Witness ==
    /\ epc = "idle"
    /\ result # None
    /\ ~result[1].success
    /\ eargs[1].test_mode
    /\ Len(outcomes) = 2
    /\ outcomes[2] = "subset"
    /\ Len(rollback_actions) = 2
    /\ rollback_actions[1].dir # rollback_actions[2].dir
    /\ \A d \in dirs : d[1] # ModelsStaging

\* C30: every job a create_backup call has returned is the ledger entry under
\* its job_id, no two calls gave the same job_id, and the ledger has as many
\* entries as there were calls
C30_LedgerKeepsEveryJob ==
    /\ \A j \in 1..Len(jobs) :
          /\ jobs[j].job_id \in DOMAIN backup_jobs
          /\ backup_jobs[jobs[j].job_id] = j
    /\ \A i, j \in 1..Len(jobs) : i # j => jobs[i].job_id # jobs[j].job_id
    /\ Cardinality(DOMAIN backup_jobs) = cb_calls

====
